---- MODULE Spec2Model ----
(***************************************************************************)
(* Model of libyul/AssemblyStack.cpp (the compilation job: parse, analyze, *)
(* optimize, translate, assemble, print) and of                            *)
(* libsolidity/codegen/MultiUseYulFunctionCollector.cpp (the registry of   *)
(* helper functions that are generated once).                              *)
(*                                                                         *)
(* A yulAssert/solAssert that fails throws: the call ends with result      *)
(* "fatal" and the members keep whatever was assigned before the throw.    *)
(***************************************************************************)
EXTENDS Integers, Sequences, FiniteSets, TLC

\* Largest number of sub-nodes the parsed root object has.
MaxSubs == 2

VARIABLES
    m_language,            \* AssemblyStack::m_language
    runYulOptimiser,       \* m_optimiserSettings.runYulOptimiser
    m_scanner,             \* m_scanner: "null" or the source name
    m_parserResult,        \* m_parserResult: NullObject or the root Object
    m_analysisSuccessful,  \* m_analysisSuccessful
    m_errors,              \* m_errors, the list m_errorReporter appends to
    last,                  \* the last call: operation, arguments, result, value
    calls                  \* calls the last operation made to the analyzer / optimiser suite

asmVars == <<m_language, runYulOptimiser, m_scanner, m_parserResult,
             m_analysisSuccessful, m_errors, last, calls>>

\* Number of function names the helper functions are requested under.
MaxNames == 3

VARIABLES
    m_requestedFunctions,  \* MultiUseYulFunctionCollector::m_requestedFunctions
    generating,            \* the createFunction calls whose _creator is running, innermost last
    invoked,               \* per name, the _creator calls since the map was last cleared
    outOfOrder,            \* since the map was last empty, an entry was inserted after one of a greater name
    rlast                  \* the last step of the collector

regVars == <<m_requestedFunctions, generating, invoked, outOfOrder, rlast>>

vars == <<asmVars, regVars>>

----------------------------------------------------------------------------
(* Data *)

Languages == {"Assembly", "StrictAssembly", "Yul", "Ewasm"}
Machines == {"EVM", "Ewasm"}

NullObject == [kind |-> "Null"]

\* A node of the tree: an Object (code, analysisInfo, subObjects) or a Data.
\* code: "none" (null), or the kind of block it is, which decides what the
\* analyzer says of it; imm: the code leaves immutable references when assembled.
Obj(n, c, i, s) ==
    [kind |-> "Object", name |-> n, code |-> c, analysisInfo |-> FALSE, imm |-> i, subObjects |-> s]

Data(n) ==
    [kind |-> "Data", name |-> n, code |-> "none", analysisInfo |-> FALSE, imm |-> FALSE, subObjects |-> <<>>]

IsObject(node) == node.kind = "Object"

SubNames == <<"A", "B", "C", "D">>

\* The shapes a sub-node of the root takes in the sources below.
SubNode(n, shape) ==
    CASE shape = "ok"  -> Obj(n, "ok", FALSE, <<>>)
      [] shape = "err" -> Obj(n, "err", FALSE, <<>>)
      [] OTHER         -> Data(n)

SubShapes == {"ok", "err", "data"}

\* Sibling names are unique: the object parser reports a name defined twice.
SubObjectLists ==
    UNION {{[i \in 1..k |-> SubNode(SubNames[i], sh[i])] : sh \in [1..k -> SubShapes]} : k \in 0..MaxSubs}

Leaf(n) == Obj(n, "ok", FALSE, <<>>)

\* The trees the object parser builds from the sources: every node an Object
\* has a code block, none has analysis metadata yet.
ParsedTrees ==
    {Obj("object", "ok", FALSE, s) : s \in SubObjectLists}
    \cup {Obj("object", "err", FALSE, <<>>),
          Obj("object", "err", FALSE, <<Leaf("A")>>),
          Obj("object", "ok", TRUE, <<Leaf("A")>>),
          Obj("object", "ok", FALSE, <<Obj("A", "ok", TRUE, <<>>)>>),
          Obj("object", "ok", FALSE, <<Obj("A", "ok", FALSE, <<Leaf("G")>>)>>),
          Obj("object", "ok", FALSE, <<Obj("A", "ok", FALSE, <<Obj("G", "err", FALSE, <<>>)>>), Leaf("B")>>)}

Diag(t, where) == [type |-> t, at |-> where]

\* What ObjectParser::parse hands back: the diagnostics it reported and the tree.
ParserOutcomes ==
    {[errors |-> <<>>, tree |-> t] : t \in ParsedTrees}
    \cup {[errors |-> <<>>, tree |-> NullObject],
          [errors |-> <<>>, tree |-> Obj("object", "none", FALSE, <<>>)],
          [errors |-> <<Diag("ParserError", <<>>)>>, tree |-> NullObject],
          [errors |-> <<Diag("ParserError", <<>>)>>, tree |-> Obj("object", "ok", FALSE, <<>>)],
          [errors |-> <<Diag("Warning", <<>>)>>, tree |-> Obj("object", "ok", FALSE, <<Obj("A", "ok", FALSE, <<>>)>>)]}

SourceNames == {"in.yul"}

----------------------------------------------------------------------------
(* Collaborators: dialects, analyzer, optimiser suite, translator, compiler *)

languageToDialect(_language) ==
    CASE _language \in {"Assembly", "StrictAssembly"} -> "EVMDialect"
      [] _language = "Yul"                            -> "EVMDialectTyped"
      [] OTHER                                        -> "WasmDialect"

\* A test of the exact type, which the typed dialect fails.
IsEVMDialect_Exact(dialect) == dialect = "EVMDialect"

\* dynamic_cast<EVMDialect const*>: EVMDialectTyped derives from EVMDialect.
IsEVMDialect(dialect) == dialect \in {"EVMDialect", "EVMDialectTyped"}

\* AsmAnalyzer::analyze on one block: it fails, and reports an error, on an
\* ill-formed block.
AnalyzerAccepts(code) == code \notin {"err", "bad"}

AnalyzerErrors(code, path) ==
    IF AnalyzerAccepts(code) THEN <<>> ELSE <<Diag("TypeError", path)>>

RECURSIVE analyzeParsedObject(_, _)
RECURSIVE analyzeSubObjects(_, _, _)

\* bool AssemblyStack::analyzeParsed(Object& _object): the node with its
\* metadata set, the result, whether an assertion threw, the errors reported
\* and the analyzer calls made, in order.
analyzeParsedObject(_object, path) ==
    IF _object.code = "none"
    THEN [obj |-> _object, success |-> FALSE, fatal |-> TRUE, errors |-> <<>>, calls |-> <<>>]
    ELSE analyzeSubObjects(
            [obj     |-> [_object EXCEPT !.analysisInfo = TRUE],
             success |-> AnalyzerAccepts(_object.code),
             fatal   |-> FALSE,
             errors  |-> AnalyzerErrors(_object.code, path),
             calls   |-> <<[callee |-> "AsmAnalyzer", at |-> path]>>],
            path, 1)

RECURSIVE analyzeSubObjects_StopAtFailure(_, _, _)
\* A loop that ends at the first node that failed.
analyzeSubObjects_StopAtFailure(acc, path, i) ==
    IF acc.fatal \/ ~acc.success \/ i > Len(acc.obj.subObjects)
    THEN acc
    ELSE IF ~IsObject(acc.obj.subObjects[i])
    THEN analyzeSubObjects(acc, path, i + 1)
    ELSE LET r == analyzeParsedObject(acc.obj.subObjects[i], Append(path, i))
         IN analyzeSubObjects(
                [obj     |-> [acc.obj EXCEPT !.subObjects[i] = r.obj],
                 success |-> IF r.success THEN acc.success ELSE FALSE,
                 fatal   |-> r.fatal,
                 errors  |-> acc.errors \o r.errors,
                 calls   |-> acc.calls \o r.calls],
                path, i + 1)

\* The loop over _object.subObjects of analyzeParsed(Object&).
analyzeSubObjects(acc, path, i) ==
    IF acc.fatal \/ i > Len(acc.obj.subObjects)
    THEN acc
    ELSE IF ~IsObject(acc.obj.subObjects[i])
    THEN analyzeSubObjects(acc, path, i + 1)
    ELSE LET r == analyzeParsedObject(acc.obj.subObjects[i], Append(path, i))
         IN analyzeSubObjects(
                [obj     |-> [acc.obj EXCEPT !.subObjects[i] = r.obj],
                 success |-> IF r.success THEN acc.success ELSE FALSE,
                 fatal   |-> r.fatal,
                 errors  |-> acc.errors \o r.errors,
                 calls   |-> acc.calls \o r.calls],
                path, i + 1)

\* What OptimiserSuite::run does on the nodes of one optimize(): on the node at
\* plan.at it leaves an ill-formed block ("bad") or throws ("throw"); everywhere
\* else it leaves a well-formed optimized block.
OptimiserPlans(paths) ==
    {[how |-> "good", at |-> <<>>]} \cup {[how |-> h, at |-> p] : h \in {"bad", "throw"}, p \in paths}

RECURSIVE ObjectPaths(_, _)
ObjectPaths(node, path) ==
    IF ~IsObject(node) THEN {}
    ELSE {path} \cup UNION {ObjectPaths(node.subObjects[i], Append(path, i)) : i \in 1..Len(node.subObjects)}

ExpectedExecutionsPerDeployment == "expectedExecutionsPerDeployment"

\* The GasMeter argument and the last-but-one argument of OptimiserSuite::run.
SuiteCall(_isCreation, path, dialect) ==
    [callee |-> "OptimiserSuite",
     at |-> path,
     isCreation |-> _isCreation,
     dialect |-> dialect,
     meter |-> IF IsEVMDialect(dialect)
               THEN <<[isCreation |-> _isCreation, runs |-> ExpectedExecutionsPerDeployment]>>
               ELSE <<>>,
     expectedExecutions |-> IF _isCreation THEN <<>> ELSE <<ExpectedExecutionsPerDeployment>>]

RECURSIVE optimizeObject(_, _, _, _, _)
RECURSIVE optimizeSubObjects(_, _, _, _, _)

\* void AssemblyStack::optimize(Object& _object, bool _isCreation)
optimizeObject(_object, _isCreation, path, dialect, plan) ==
    IF _object.code = "none" \/ ~_object.analysisInfo
    THEN [obj |-> _object, fatal |-> TRUE, calls |-> <<>>]
    ELSE LET subs == optimizeSubObjects([obj |-> _object, fatal |-> FALSE, calls |-> <<>>], path, dialect, plan, 1)
         IN IF subs.fatal THEN subs
            ELSE IF plan.how = "throw" /\ plan.at = path
            THEN [subs EXCEPT !.fatal = TRUE, !.calls = Append(@, SuiteCall(_isCreation, path, dialect))]
            ELSE [obj   |-> [subs.obj EXCEPT !.code = IF plan.how = "bad" /\ plan.at = path THEN "bad" ELSE "opt"],
                  fatal |-> FALSE,
                  calls |-> Append(subs.calls, SuiteCall(_isCreation, path, dialect))]

RECURSIVE optimizeSubObjects_AsCreation(_, _, _, _, _)
\* A loop that optimizes the nested nodes as creation code.
optimizeSubObjects_AsCreation(acc, path, dialect, plan, i) ==
    IF acc.fatal \/ i > Len(acc.obj.subObjects)
    THEN acc
    ELSE IF ~IsObject(acc.obj.subObjects[i])
    THEN optimizeSubObjects(acc, path, dialect, plan, i + 1)
    ELSE LET r == optimizeObject(acc.obj.subObjects[i], TRUE, Append(path, i), dialect, plan)
         IN optimizeSubObjects(
                [obj   |-> [acc.obj EXCEPT !.subObjects[i] = r.obj],
                 fatal |-> r.fatal,
                 calls |-> acc.calls \o r.calls],
                path, dialect, plan, i + 1)

\* The loop over _object.subObjects of optimize(Object&, bool).
optimizeSubObjects(acc, path, dialect, plan, i) ==
    IF acc.fatal \/ i > Len(acc.obj.subObjects)
    THEN acc
    ELSE IF ~IsObject(acc.obj.subObjects[i])
    THEN optimizeSubObjects(acc, path, dialect, plan, i + 1)
    ELSE LET r == optimizeObject(acc.obj.subObjects[i], FALSE, Append(path, i), dialect, plan)
         IN optimizeSubObjects(
                [obj   |-> [acc.obj EXCEPT !.subObjects[i] = r.obj],
                 fatal |-> r.fatal,
                 calls |-> acc.calls \o r.calls],
                path, dialect, plan, i + 1)

RECURSIVE translateObject(_)
\* EVMToEwasmTranslator::run: a new object of the same shape, its blocks
\* translated and analyzed against the Wasm dialect.
translateObject(_object) ==
    IF ~IsObject(_object) THEN _object
    ELSE [_object EXCEPT !.code = "wasm",
                         !.analysisInfo = TRUE,
                         !.subObjects = [i \in 1..Len(_object.subObjects) |-> translateObject(_object.subObjects[i])]]

RECURSIVE compileObject(_, _)
\* EVMObjectCompiler::compile: the assembly of the node, with one sub-assembly
\* per sub-object that is an Object (a Data is appended as data), in order.
compileObject(_object, dialect) ==
    LET objs == SelectSeq(_object.subObjects, IsObject)
    IN [name  |-> _object.name,
        items |-> <<_object.code, dialect>>,
        imm   |-> _object.imm,
        data  |-> [i \in 1..Len(SelectSeq(_object.subObjects, LAMBDA n : ~IsObject(n))) |->
                      SelectSeq(_object.subObjects, LAMBDA n : ~IsObject(n))[i].name],
        subs  |-> [i \in 1..Len(objs) |-> compileObject(objs[i], dialect)]]

\* evmasm::Assembly::assemble: the linker object of an assembly.
LinkerObject(assembly) ==
    [bytecode |-> [of |-> assembly.name, code |-> assembly.items, subs |-> assembly.subs, data |-> assembly.data],
     immutableReferences |-> IF assembly.imm THEN {assembly.name} ELSE {}]

\* A MachineAssemblyObject as constructed by default: all three members null.
EmptyMachineObject == [bytecode |-> <<>>, assembly |-> <<>>, sourceMappings |-> <<>>]

\* The three members assembleWithDeployed fills in from an assembly.
MachineObject(assembly, sourceName) ==
    [bytecode       |-> <<LinkerObject(assembly)>>,
     assembly       |-> <<assembly>>,
     sourceMappings |-> <<[items |-> assembly.items, name |-> sourceName, offset |-> 0]>>]

\* Object::toString: the text of the tree under a dialect.
RECURSIVE ObjectToString(_, _)
ObjectToString(node, dialect) ==
    [kind |-> node.kind, name |-> node.name, code |-> node.code, dialect |-> dialect,
     subs |-> [i \in 1..Len(node.subObjects) |-> ObjectToString(node.subObjects[i], dialect)]]

----------------------------------------------------------------------------
(* MultiUseYulFunctionCollector: texts are sequences of characters *)

TAB == "\t"
NL == "\n"

ToFunction == <<"f", "u", "n", "c", "t", "i", "o", "n">>

\* "<<STUB<<"
Stub == <<"<", "<", "S", "T", "U", "B", "<", "<">>

\* "/// @src"
SrcTag == <<"/", "/", "/", " ", "@", "s", "r", "c">>

Letters == {"a", "b", "c", "f", "i", "n", "o", "q", "r", "s", "t", "u", "x", "z"}

\* The characters of function names, in the order of their codes.
CharCode(c) ==
    CASE c = "a" -> 97 [] c = "b" -> 98 [] c = "c" -> 99 [] c = "f" -> 102
      [] c = "i" -> 105 [] c = "n" -> 110 [] c = "o" -> 111 [] c = "q" -> 113
      [] c = "r" -> 114 [] c = "s" -> 115 [] c = "t" -> 116 [] c = "u" -> 117
      [] c = "x" -> 120 [] c = "z" -> 122 [] OTHER -> 0

RECURSIVE StringLess_ByLength(_, _)
\* An order that puts the shorter name first.
StringLess_ByLength(a, b) ==
    IF Len(a) # Len(b) THEN Len(a) < Len(b)
    ELSE IF a = <<>> THEN FALSE
    ELSE IF Head(a) = Head(b) THEN StringLess_ByLength(Tail(a), Tail(b))
    ELSE CharCode(Head(a)) < CharCode(Head(b))

RECURSIVE StringLess(_, _)
\* std::less<std::string>, the key order of std::map<string, string>.
StringLess(a, b) ==
    IF b = <<>> THEN FALSE
    ELSE IF a = <<>> THEN TRUE
    ELSE IF Head(a) = Head(b) THEN StringLess(Tail(a), Tail(b))
    ELSE CharCode(Head(a)) < CharCode(Head(b))

RECURSIVE MapOrder(_)
\* The keys of a std::map in the order a range-for visits them.
MapOrder(keys) ==
    IF keys = {} THEN <<>>
    ELSE LET first == CHOOSE k \in keys : \A other \in keys \ {k} : StringLess(k, other)
         IN <<first>> \o MapOrder(keys \ {first})

\* string::find: the first position (from 1) at which sub occurs, 0 for npos.
Find(text, sub) ==
    LET hits == {p \in 1..(Len(text) - Len(sub) + 1) : SubSeq(text, p, p + Len(sub) - 1) = sub}
    IN IF hits = {} THEN 0 ELSE CHOOSE p \in hits : \A q \in hits : p <= q

\* string::find_last_of(ch) on the first n characters: the last position, 0 for npos.
FindLastOf(text, n, ch) ==
    LET hits == {p \in 1..n : text[p] = ch}
    IN IF hits = {} THEN 0 ELSE CHOOSE p \in hits : \A q \in hits : q <= p

IsBlank(c) == c \in {" ", TAB}

\* [a-zA-Z0-9_$]
IsNameChar(c) == c \in Letters \cup {"0", "1", "_", "$"}

RECURSIVE SkipBlank(_, _)
SkipBlank(text, p) ==
    IF p <= Len(text) /\ IsBlank(text[p]) THEN SkipBlank(text, p + 1) ELSE p

RECURSIVE SkipName(_, _)
SkipName(text, p) ==
    IF p <= Len(text) /\ IsNameChar(text[p]) THEN SkipName(text, p + 1) ELSE p

\* Whether function[ \t]+[a-zA-Z0-9_$]+\([^\)]*\) matches at position p.
FunctionRegexAt(code, p) ==
    /\ p + 7 <= Len(code)
    /\ SubSeq(code, p, p + 7) = ToFunction
    /\ LET name == SkipBlank(code, p + 8)
           open == SkipName(code, name)
       IN /\ name > p + 8
          /\ open > name
          /\ open <= Len(code)
          /\ code[open] = "("
          /\ \E close \in (open + 1)..Len(code) : code[close] = ")"

\* regex_search(code, match, functionRegex): match.position() + 1, 0 for no match.
FunctionRegexSearch(code) ==
    LET hits == {p \in 1..Len(code) : FunctionRegexAt(code, p)}
    IN IF hits = {} THEN 0 ELSE CHOOSE p \in hits : \A q \in hits : p <= q

Tabs(n) == [i \in 1..n |-> TAB]

\* The text the loop body of requestedFunctions adds for one entry; the
\* assertion on regex_search has passed.
WithSourceLocation(code, _sourceLocationComment) ==
    LET functionStart == FunctionRegexSearch(code) - 1
        lineStart == FindLastOf(code, functionStart, NL)
        numTabs == IF lineStart = 0 THEN 0 ELSE functionStart - (lineStart - 1) - 1
    IN SubSeq(code, 1, functionStart)
       \o _sourceLocationComment
       \o <<NL>>
       \o Tabs(numTabs)
       \o SubSeq(code, functionStart + 1, Len(code))

\* Whether the comment is inserted into this entry.
NeedsSourceLocation(code, _sourceLocationComment) ==
    Find(code, SrcTag) = 0 /\ _sourceLocationComment # <<>>

\* A comparison that takes no entry for the placeholder.
IsStub_Never(code) == FALSE

\* code == "<<STUB<<", the test the assertion of the loop negates.
IsStub(code) == code = Stub

\* A registry that keeps its entries when it is drained.
Cleared_Kept(functions) == functions

\* m_requestedFunctions.clear()
Cleared(functions) == <<>>

RECURSIVE requestedFunctionsLoop(_, _, _, _)
\* The loop of requestedFunctions over the entries from position i on:
\* [fatal, result].
requestedFunctionsLoop(functions, order, i, _sourceLocationComment) ==
    IF i > Len(order) THEN [fatal |-> FALSE, result |-> <<>>]
    ELSE LET code == functions[order[i]]
         IN IF IsStub(code)
            THEN [fatal |-> TRUE, result |-> <<>>]
            ELSE IF NeedsSourceLocation(code, _sourceLocationComment) /\ FunctionRegexSearch(code) = 0
            THEN [fatal |-> TRUE, result |-> <<>>]
            ELSE LET rest == requestedFunctionsLoop(functions, order, i + 1, _sourceLocationComment)
                     piece == IF NeedsSourceLocation(code, _sourceLocationComment)
                              THEN WithSourceLocation(code, _sourceLocationComment)
                              ELSE code
                 IN [fatal |-> rest.fatal, result |-> piece \o rest.result]

\* string MultiUseYulFunctionCollector::requestedFunctions(_sourceLocationComment):
\* [fatal, result, functions], functions being the map after the call.
requestedFunctions(functions, _sourceLocationComment) ==
    LET loop == requestedFunctionsLoop(functions, MapOrder(DOMAIN functions), 1, _sourceLocationComment)
    IN IF loop.fatal
       THEN [fatal |-> TRUE, result |-> <<>>, functions |-> functions]
       ELSE [fatal |-> FALSE, result |-> loop.result, functions |-> Cleared(functions)]

\* A registry that drops the entry of a request that ends in an exception.
Abandoned_Erased(functions, _name) == [k \in DOMAIN functions \ {_name} |-> functions[k]]

\* The map after an exception has left createFunction for _name: the function
\* has no handler, so the entry made before the call of _creator stays.
Abandoned(functions, _name) == functions

\* m_requestedFunctions[_name] = text
Store(functions, _name, text) ==
    [k \in DOMAIN functions \cup {_name} |-> IF k = _name THEN text ELSE functions[k]]

\* A lookup that never finds the name.
Requested_Never(functions, _name) == FALSE

\* m_requestedFunctions.count(_name)
Requested(functions, _name) == _name \in DOMAIN functions

\* A test that takes any non-empty text.
ProperlyNamed_AnyName(fun, _name) == fun # <<>>

\* The two assertions of createFunction (form A) on the generated text.
ProperlyNamed(fun, _name) ==
    /\ fun # <<>>
    /\ Find(fun, ToFunction \o <<" ">> \o _name \o <<"(">>) # 0

RECURSIVE joinHumanReadable(_)
\* joinHumanReadable(list) with its default separator ", ".
joinHumanReadable(list) ==
    IF list = <<>> THEN <<>>
    ELSE IF Len(list) = 1 THEN list[1]
    ELSE list[1] \o <<",", " ">> \o joinHumanReadable(Tail(list))

\* The Whiskers template of createFunction (form B), rendered.
Render(_name, arguments, returnParameters, body) ==
    <<NL, TAB, TAB, TAB>> \o ToFunction \o <<" ">> \o _name
    \o <<"(">> \o joinHumanReadable(arguments) \o <<")">>
    \o (IF joinHumanReadable(returnParameters) # <<>>
        THEN <<" ", "-", ">", " ">> \o joinHumanReadable(returnParameters)
        ELSE <<>>)
    \o <<" ", "{", NL, TAB, TAB, TAB, TAB>> \o body \o <<NL, TAB, TAB, TAB, "}", NL, TAB, TAB>>

----------------------------------------------------------------------------
(* The callers of the collector: names requested, texts generated *)

NameList == << <<"a", "b">>, <<"z">>, <<>>, <<"a">>, <<"b">> >>

Names == {NameList[i] : i \in 1..MaxNames}

\* "function <n>(){}"
Plain(n) == ToFunction \o <<" ">> \o n \o <<"(", ")", "{", "}">>

Indented(n) == <<NL, TAB, TAB>> \o Plain(n) \o <<NL>>

Annotated(n) == SrcTag \o <<NL>> \o Plain(n)

HelperFirst(n) == Plain(<<"q">>) \o <<NL, TAB>> \o Plain(n)

\* What a form A generator asked for name n returns: a definition of n, the
\* empty text or a definition of another name; for the first name also a
\* definition on one line and one that follows a helper's.
GeneratedTexts(n) ==
    {Indented(n), Annotated(n), <<>>, Plain(<<"q">>)}
    \cup (IF n = NameList[1] THEN {Plain(n), HelperFirst(n)} ELSE {})

\* What a form B generator returns and puts into its two lists.
GeneratedBodies ==
    {[body |-> <<>>, arguments |-> <<>>, returnParameters |-> <<>>],
     [body |-> <<"x">>, arguments |-> <<>>, returnParameters |-> <<>>],
     [body |-> <<"x">>, arguments |-> << <<"a">>, <<"b">> >>, returnParameters |-> << <<"r">> >>]}

SourceLocationComments == {<<>>, SrcTag \o <<" ", "0">>}

----------------------------------------------------------------------------
(* The member functions of AssemblyStack, as functions of the members.      *)
(* job: [language, parserResult, analysisSuccessful, errors, scanner].      *)
(* Each gives the members after the call, its result ("fatal" when an       *)
(* assertion threw), the value returned and the collaborator calls made.    *)

NoValue == [kind |-> "none"]

Outcome(job, result, value, made) ==
    [job |-> job, result |-> result, value |-> value, calls |-> made]

Fatal(job, made) == Outcome(job, "fatal", NoValue, made)

Bool(b) == IF b THEN "true" ELSE "false"

\* bool AssemblyStack::analyzeParsed()
analyzeParsed(job) ==
    IF job.parserResult = NullObject
    THEN Fatal(job, <<>>)
    ELSE LET r == analyzeParsedObject(job.parserResult, <<>>)
             seen == [job EXCEPT !.parserResult = r.obj, !.errors = @ \o r.errors]
         IN IF r.fatal
            THEN Fatal(seen, r.calls)
            ELSE Outcome([seen EXCEPT !.analysisSuccessful = r.success], Bool(r.success), NoValue, r.calls)

\* A reset that keeps the analyzed flag of the previous source.
ResetAndParse_KeepFlag(job, _sourceName, parsed) ==
    [job EXCEPT !.errors = parsed.errors,
                !.scanner = _sourceName,
                !.parserResult = parsed.tree]

\* The first four statements of parseAndAnalyze: m_errors.clear(), the flag
\* cleared, the scanner made, the parser run (it reports into m_errors).
ResetAndParse(job, _sourceName, parsed) ==
    [job EXCEPT !.errors = parsed.errors,
                !.analysisSuccessful = FALSE,
                !.scanner = _sourceName,
                !.parserResult = parsed.tree]

\* bool AssemblyStack::parseAndAnalyze(_sourceName, _source); parsed is what
\* the object parser makes of _source.
parseAndAnalyze(job, _sourceName, parsed) ==
    LET reset == ResetAndParse(job, _sourceName, parsed)
    IN IF parsed.errors # <<>>
       THEN Outcome(reset, "false", NoValue, <<>>)
       ELSE IF parsed.tree = NullObject
       THEN Fatal(reset, <<>>)
       ELSE IF parsed.tree.code = "none"
       THEN Fatal(reset, <<>>)
       ELSE analyzeParsed(reset)

\* An optimiser switch that is not looked at.
OptimiserDisabled_Ignored(_runYulOptimiser) == FALSE

\* if (!m_optimiserSettings.runYulOptimiser) return;
OptimiserDisabled(_runYulOptimiser) == ~_runYulOptimiser

\* An optimize() that leaves the flag set while it rewrites the tree.
ClearAnalysis_Kept(job) == job

\* m_analysisSuccessful = false;
ClearAnalysis(job) == [job EXCEPT !.analysisSuccessful = FALSE]

\* void AssemblyStack::optimize()
optimize(job, _runYulOptimiser, plan) ==
    IF OptimiserDisabled(_runYulOptimiser)
    THEN Outcome(job, "ok", NoValue, <<>>)
    ELSE IF ~job.analysisSuccessful
    THEN Fatal(job, <<>>)
    ELSE LET cleared == ClearAnalysis(job)
         IN IF job.parserResult = NullObject
            THEN Fatal(cleared, <<>>)
            ELSE LET o == optimizeObject(job.parserResult, TRUE, <<>>, languageToDialect(job.language), plan)
                     rewritten == [cleared EXCEPT !.parserResult = o.obj]
                 IN IF o.fatal
                    THEN Fatal(rewritten, o.calls)
                    ELSE LET a == analyzeParsed(rewritten)
                         IN IF a.result = "true"
                            THEN Outcome(a.job, "ok", NoValue, o.calls \o a.calls)
                            ELSE Fatal(a.job, o.calls \o a.calls)

\* An accessor that asserts the tree and its block only.
parserResult_Unanalyzed(job) ==
    /\ job.parserResult # NullObject
    /\ job.parserResult.code # "none"

\* shared_ptr<Object> AssemblyStack::parserResult(): whether its assertions pass.
parserResult(job) ==
    /\ job.analysisSuccessful
    /\ job.parserResult # NullObject
    /\ job.parserResult.code # "none"

\* A translation that is also taken from the typed language.
SupportedTranslation_FromYul(_language, _targetLanguage) ==
    _language \in {"StrictAssembly", "Yul"} /\ _targetLanguage = "Ewasm"

\* The condition of translate's yulAssert, "Invalid language combination".
SupportedTranslation(_language, _targetLanguage) ==
    _language = "StrictAssembly" /\ _targetLanguage = "Ewasm"

\* void AssemblyStack::translate(_targetLanguage)
translate(job, _targetLanguage) ==
    IF job.language = _targetLanguage
    THEN Outcome(job, "ok", NoValue, <<>>)
    ELSE IF ~SupportedTranslation(job.language, _targetLanguage)
    THEN Fatal(job, <<>>)
    ELSE IF ~parserResult(job)
    THEN Fatal(job, <<>>)
    ELSE Outcome([job EXCEPT !.parserResult = translateObject(job.parserResult),
                             !.language = _targetLanguage],
                 "ok", NoValue, <<[callee |-> "EVMToEwasmTranslator", at |-> <<>>]>>)

\* A switch whose default case does not assert.
compileEVM_AnyLanguage(_language) == TRUE

\* void AssemblyStack::compileEVM: the languages its switch has a dialect for.
compileEVM(_language) == _language \in {"Assembly", "StrictAssembly", "Yul"}

\* The four assertions assemble and assembleWithDeployed open with.
AssembleAsserts(job) ==
    /\ job.analysisSuccessful
    /\ job.parserResult # NullObject
    /\ job.parserResult.code # "none"
    /\ job.parserResult.analysisInfo

\* The first index i (from 1) with assembly.sub(i).name() == name, or 0.
FindSub(subs, name) ==
    IF \E i \in 1..Len(subs) : subs[i].name = name
    THEN CHOOSE i \in 1..Len(subs) :
            /\ subs[i].name = name
            /\ \A j \in 1..(i - 1) : subs[j].name # name
    ELSE 0

\* A heuristic that takes the first sub-assembly whenever there is one.
subIndex_FirstOfMany(subs, _deployName) ==
    IF _deployName # <<>>
    THEN FindSub(subs, _deployName[1])
    ELSE IF Len(subs) >= 1 THEN 1 ELSE 0

\* subIndex of assembleWithDeployed (from 1; 0 is nullopt); _deployName is
\* <<>> (nullopt) or <<name>>.
subIndex(subs, _deployName) ==
    IF _deployName # <<>>
    THEN FindSub(subs, _deployName[1])
    ELSE IF Len(subs) = 1 THEN 1 ELSE 0

\* A creation object that is not checked for leftover immutables.
NoLeftoverImmutables_Unchecked(object) == TRUE

\* yulAssert(creationObject.bytecode->immutableReferences.empty(), "Leftover immutables.")
NoLeftoverImmutables(object) == object.bytecode[1].immutableReferences = {}

\* pair<MachineAssemblyObject, MachineAssemblyObject> AssemblyStack::assembleWithDeployed(_deployName)
assembleWithDeployed(job, _deployName) ==
    IF ~AssembleAsserts(job)
    THEN Fatal(job, <<>>)
    ELSE IF ~compileEVM(job.language)
    THEN Fatal(job, <<>>)
    ELSE LET assembly == compileObject(job.parserResult, languageToDialect(job.language))
             creationObject == MachineObject(assembly, job.scanner)
             idx == subIndex(assembly.subs, _deployName)
         IN IF ~NoLeftoverImmutables(creationObject)
            THEN Fatal(job, <<>>)
            ELSE IF job.scanner = "null"
            THEN Fatal(job, <<>>)
            ELSE IF _deployName # <<>> /\ idx = 0
            THEN Fatal(job, <<>>)
            ELSE Outcome(job, "ok",
                         [kind   |-> "pair",
                          first  |-> creationObject,
                          second |-> IF idx # 0
                                     THEN MachineObject(assembly.subs[idx], job.scanner)
                                     ELSE EmptyMachineObject],
                         <<>>)

\* MachineAssemblyObject AssemblyStack::assemble(_machine)
assemble(job, _machine) ==
    IF ~AssembleAsserts(job)
    THEN Fatal(job, <<>>)
    ELSE IF _machine = "EVM"
    THEN LET both == assembleWithDeployed(job, <<>>)
         IN IF both.result = "fatal"
            THEN both
            ELSE Outcome(job, "ok", [kind |-> "object", object |-> both.value.first], <<>>)
    ELSE IF job.language # "Ewasm"
    THEN Fatal(job, <<>>)
    ELSE Outcome(job, "ok",
                 [kind   |-> "object",
                  object |-> [bytecode       |-> <<[bytecode |-> ObjectToString(job.parserResult, "WasmDialect"),
                                                     immutableReferences |-> {}]>>,
                              assembly       |-> <<ObjectToString(job.parserResult, "WasmDialect")>>,
                              sourceMappings |-> <<>>]],
                 <<>>)

\* A print() that asserts successful analysis as parserResult() does.
PrintAsserts_Analyzed(job) ==
    /\ job.analysisSuccessful
    /\ job.parserResult # NullObject
    /\ job.parserResult.code # "none"

\* The two assertions print() opens with.
PrintAsserts(job) ==
    /\ job.parserResult # NullObject
    /\ job.parserResult.code # "none"

\* string AssemblyStack::print()
print(job) ==
    IF ~PrintAsserts(job)
    THEN Fatal(job, <<>>)
    ELSE Outcome(job, "ok",
                 [kind |-> "text", text |-> ObjectToString(job.parserResult, languageToDialect(job.language))],
                 <<>>)

----------------------------------------------------------------------------
(* The job as a state machine: one action per public member function *)

Job ==
    [language           |-> m_language,
     parserResult       |-> m_parserResult,
     analysisSuccessful |-> m_analysisSuccessful,
     errors             |-> m_errors,
     scanner            |-> m_scanner]

\* The members after a call, and the record of the call.
Call(op, arg, out) ==
    /\ m_language' = out.job.language
    /\ m_parserResult' = out.job.parserResult
    /\ m_analysisSuccessful' = out.job.analysisSuccessful
    /\ m_errors' = out.job.errors
    /\ m_scanner' = out.job.scanner
    /\ last' = [op |-> op, arg |-> arg, result |-> out.result, value |-> out.value]
    /\ calls' = out.calls
    /\ UNCHANGED <<runYulOptimiser, regVars>>

DeployNames == {<<>>, <<"object">>, <<"G">>, <<"Z">>} \cup {<<SubNames[i]>> : i \in 1..MaxSubs}

\* The collector as constructed: an empty map.
RegInit ==
    /\ m_requestedFunctions = <<>>
    /\ generating = <<>>
    /\ invoked = [n \in Names |-> 0]
    /\ outOfOrder = FALSE
    /\ rlast = [op |-> "construct", form |-> "", name |-> <<>>, result |-> "ok", value |-> <<>>, out |-> <<>>]

AsmInit ==
    /\ RegInit
    /\ m_language \in Languages
    /\ runYulOptimiser \in BOOLEAN
    /\ m_scanner = "null"
    /\ m_parserResult = NullObject
    /\ m_analysisSuccessful = FALSE
    /\ m_errors = <<>>
    /\ last = [op |-> "construct", arg |-> <<>>, result |-> "ok", value |-> NoValue]
    /\ calls = <<>>

ParseAndAnalyze ==
    \E name \in SourceNames, parsed \in ParserOutcomes :
        Call("parseAndAnalyze", <<parsed>>, parseAndAnalyze(Job, name, parsed))

Optimize ==
    \E plan \in OptimiserPlans(ObjectPaths(m_parserResult, <<>>)) :
        Call("optimize", <<plan>>, optimize(Job, runYulOptimiser, plan))

Translate ==
    \E target \in Languages :
        Call("translate", <<target>>, translate(Job, target))

Assemble ==
    \E machine \in Machines :
        Call("assemble", <<machine>>, assemble(Job, machine))

AssembleWithDeployed ==
    \E name \in DeployNames :
        Call("assembleWithDeployed", name, assembleWithDeployed(Job, name))

PrintJob ==
    Call("print", <<>>, print(Job))

AsmNext ==
    \/ ParseAndAnalyze
    \/ Optimize
    \/ Translate
    \/ Assemble
    \/ AssembleWithDeployed
    \/ PrintJob

Spec == AsmInit /\ [][AsmNext]_vars

----------------------------------------------------------------------------
(* The collector as a state machine. A createFunction call that finds no    *)
(* entry is two steps, one up to the call of _creator and one from its      *)
(* return, since _creator may call the collector again in between.          *)

\* An exception leaving a call goes to the generator that made the call and
\* on through the k innermost running generators that do not catch it.
Unwind(k) == generating' = SubSeq(generating, 1, Len(generating) - k)

Step(op, form, name, result, value) ==
    rlast' = [op |-> op, form |-> form, name |-> name, result |-> result, value |-> value,
              out |-> <<>>]

\* A step in which a generator has returned out.
StepOut(op, form, name, result, value, out) ==
    rlast' = [op |-> op, form |-> form, name |-> name, result |-> result, value |-> value,
              out |-> out]

RECURSIVE AbandonedAll(_, _, _)
\* The map after an exception has left the k innermost requests of frames.
AbandonedAll(functions, frames, k) ==
    IF k = 0 THEN functions
    ELSE AbandonedAll(Abandoned(functions, frames[Len(frames)].name),
                      SubSeq(frames, 1, Len(frames) - 1), k - 1)

\* createFunction up to where _creator is called.
CreateFunction ==
    \E form \in {"A", "B"}, _name \in Names :
        /\ IF form = "B" /\ _name = <<>>
           THEN /\ \E k \in 0..Len(generating) : Unwind(k)
                /\ Step("createFunction", form, _name, "fatal", <<>>)
                /\ UNCHANGED <<m_requestedFunctions, invoked, outOfOrder>>
           ELSE IF Requested(m_requestedFunctions, _name)
           THEN /\ Step("createFunction", form, _name, "returned", _name)
                /\ UNCHANGED <<m_requestedFunctions, generating, invoked, outOfOrder>>
           ELSE /\ m_requestedFunctions' = Store(m_requestedFunctions, _name, Stub)
                /\ generating' = Append(generating, [name |-> _name, form |-> form])
                /\ invoked' = [invoked EXCEPT ![_name] = @ + 1]
                /\ outOfOrder' = \E k \in DOMAIN m_requestedFunctions : outOfOrder \/ StringLess(_name, k)
                /\ Step("createFunction", form, _name, "generating", <<>>)
        /\ UNCHANGED asmVars

\* The text createFunction stores for what the innermost _creator returned,
\* <<>> when an assertion fails on it.
Generated(frame, out) ==
    IF frame.form = "A"
    THEN IF ProperlyNamed(out, frame.name) THEN out ELSE <<>>
    ELSE IF out.body # <<>>
         THEN Render(frame.name, out.arguments, out.returnParameters, out.body)
         ELSE <<>>

\* The innermost _creator returns and createFunction runs to its end.
CreatorReturns ==
    /\ generating # <<>>
    /\ LET frame == generating[Len(generating)]
       IN \E out \in (IF frame.form = "A" THEN GeneratedTexts(frame.name) ELSE GeneratedBodies) :
             IF Generated(frame, out) # <<>>
             THEN /\ m_requestedFunctions' = Store(m_requestedFunctions, frame.name, Generated(frame, out))
                  /\ Unwind(1)
                  /\ StepOut("creatorReturns", frame.form, frame.name, "returned", frame.name, out)
             ELSE /\ \E k \in 1..Len(generating) :
                        /\ Unwind(k)
                        /\ m_requestedFunctions' = AbandonedAll(m_requestedFunctions, generating, k)
                  /\ StepOut("creatorReturns", frame.form, frame.name, "fatal", <<>>, out)
    /\ UNCHANGED <<invoked, outOfOrder, asmVars>>

\* The innermost _creator throws.
CreatorThrows ==
    /\ generating # <<>>
    /\ \E k \in 1..Len(generating) :
          /\ Unwind(k)
          /\ m_requestedFunctions' = AbandonedAll(m_requestedFunctions, generating, k)
    /\ Step("creatorThrows", generating[Len(generating)].form, generating[Len(generating)].name, "fatal", <<>>)
    /\ UNCHANGED <<invoked, outOfOrder, asmVars>>

RequestedFunctions ==
    \E comment \in SourceLocationComments :
        LET r == requestedFunctions(m_requestedFunctions, comment)
        IN /\ m_requestedFunctions' = r.functions
           /\ IF r.fatal
              THEN /\ \E k \in 0..Len(generating) : Unwind(k)
                   /\ Step("requestedFunctions", "", comment, "fatal", <<>>)
                   /\ UNCHANGED <<invoked, outOfOrder>>
              ELSE /\ Step("requestedFunctions", "", comment, "returned", r.result)
                   /\ invoked' = [n \in Names |-> 0]
                   /\ UNCHANGED <<generating, outOfOrder>>
           /\ UNCHANGED asmVars

RegNext ==
    \/ CreateFunction
    \/ CreatorReturns
    \/ CreatorThrows
    \/ RequestedFunctions

\* The collector alone, beside a job that is never used.
RegSpecInit ==
    /\ RegInit
    /\ m_language = "StrictAssembly"
    /\ runYulOptimiser = FALSE
    /\ m_scanner = "null"
    /\ m_parserResult = NullObject
    /\ m_analysisSuccessful = FALSE
    /\ m_errors = <<>>
    /\ last = [op |-> "construct", arg |-> <<>>, result |-> "ok", value |-> NoValue]
    /\ calls = <<>>

RegSpec == RegSpecInit /\ [][RegNext]_vars

----------------------------------------------------------------------------
(* Properties of the compilation job *)

members == <<m_language, m_scanner, m_parserResult, m_analysisSuccessful, m_errors>>

StackVMLanguages == {"Assembly", "StrictAssembly", "Yul"}

\* The machine a call of assemble or assembleWithDeployed targets.
TargetOf(call) == IF call.op = "assemble" THEN call.arg[1] ELSE "EVM"

Compatible(machine, language) ==
    IF machine = "EVM" THEN language \in StackVMLanguages ELSE language = "Ewasm"

\* C1: assemble(machine) and assembleWithDeployed(name) return an artifact only
\* when the analyzed flag is true and the machine fits the language (stack VM:
\* legacy assembly, strict assembly or typed IL; secondary VM: the secondary-VM
\* form); in every other state the call is fatal and returns nothing.
C1_AssembleNeedsAnalysisAndLanguage ==
    last.op \in {"assemble", "assembleWithDeployed"} =>
        /\ last.result \in {"ok", "fatal"}
        /\ last.result = "ok" =>
              /\ m_analysisSuccessful
              /\ Compatible(TargetOf(last), m_language)
              /\ last.value # NoValue
        /\ ~(m_analysisSuccessful /\ Compatible(TargetOf(last), m_language)) =>
              /\ last.result = "fatal"
              /\ last.value = NoValue

C1_Witness ==
    /\ last.op = "assemble"
    /\ last.arg = <<"Ewasm">>
    /\ last.result = "ok"
    /\ m_parserResult.code = "wasm"

RECURSIVE HasCode(_, _)
\* Some Object node of the tree has a block of this kind.
HasCode(node, code) ==
    /\ IsObject(node)
    /\ \/ node.code = code
       \/ \E i \in 1..Len(node.subObjects) : HasCode(node.subObjects[i], code)

\* The analyzer calls of a call come after all its optimiser-suite calls.
ReanalyzedAfterwards(made) ==
    /\ \E i \in 1..Len(made) : made[i].callee = "AsmAnalyzer" /\ made[i].at = <<>>
    /\ \A i, j \in 1..Len(made) :
          (made[i].callee = "OptimiserSuite" /\ made[j].callee = "AsmAnalyzer") => i < j

\* C2: with the optimizer enabled, optimize() is fatal unless the analyzed flag
\* is true at the call; it returns normally only with the tree re-analyzed after
\* the rewriting and the flag true again, it is fatal when the rewritten tree
\* fails analysis, and when it aborts after the precondition passed the flag is false.
C2_EnabledOptimize ==
    [][(last'.op = "optimize" /\ runYulOptimiser) =>
          /\ ~m_analysisSuccessful => (last'.result = "fatal" /\ UNCHANGED members)
          /\ last'.result = "ok" =>
                /\ m_analysisSuccessful
                /\ m_analysisSuccessful'
                /\ ReanalyzedAfterwards(calls')
          /\ (m_analysisSuccessful /\ HasCode(m_parserResult', "bad")) => last'.result = "fatal"
          /\ (m_analysisSuccessful /\ last'.result = "fatal") => ~m_analysisSuccessful'
      ]_vars

C2_Witness ==
    /\ last.op = "optimize"
    /\ runYulOptimiser
    /\ last.result = "fatal"
    /\ last.arg[1].how = "throw"
    /\ Len(calls) > 0
    /\ ~m_analysisSuccessful

\* C3: with the optimizer disabled, optimize() is a no-op in every job state,
\* also when the job was never parsed or analysis failed: it is not fatal, it
\* leaves the tree, the flag, the language and the diagnostics unchanged, and
\* a following assemble gives what it would have given without it.
C3_DisabledOptimizeIsNoOp ==
    [][(last'.op = "optimize" /\ ~runYulOptimiser) =>
          /\ last'.result = "ok"
          /\ UNCHANGED members
          /\ calls' = <<>>
          /\ \A machine \in Machines :
                /\ assemble(Job', machine).result = assemble(Job, machine).result
                /\ assemble(Job', machine).value = assemble(Job, machine).value
      ]_vars

C3_Witness ==
    /\ last.op = "optimize"
    /\ ~runYulOptimiser
    /\ last.result = "ok"
    /\ m_parserResult # NullObject
    /\ ~m_analysisSuccessful

RECURSIVE FailingNodes(_)
\* The number of Object nodes of a tree whose block the analyzer rejects.
FailingNodes(node) ==
    IF ~IsObject(node) THEN 0
    ELSE LET RECURSIVE Sum(_)
             Sum(i) == IF i = 0 THEN 0 ELSE FailingNodes(node.subObjects[i]) + Sum(i - 1)
         IN (IF node.code \in {"err", "bad"} THEN 1 ELSE 0) + Sum(Len(node.subObjects))

\* C4: parseAndAnalyze empties the diagnostics and clears the flag first; it
\* returns true exactly when the parser reported nothing and every node of the
\* tree passed analysis, and then the tree is there and the flag is true;
\* when it returns false the flag is false and the diagnostics are not empty.
C4_ParseAndAnalyzeResult ==
    last.op = "parseAndAnalyze" =>
        LET parsed == last.arg[1]
            hasTree == parsed.tree # NullObject /\ parsed.tree.code # "none"
        IN /\ last.result = "true" <=>
                 (parsed.errors = <<>> /\ hasTree /\ FailingNodes(parsed.tree) = 0)
           /\ last.result = "true" =>
                 (m_parserResult # NullObject /\ m_analysisSuccessful)
           /\ last.result = "false" =>
                 (~m_analysisSuccessful /\ m_errors # <<>>)
           /\ last.result # "true" => ~m_analysisSuccessful
           /\ Len(m_errors) = Len(parsed.errors)
                 + (IF parsed.errors = <<>> /\ hasTree THEN FailingNodes(parsed.tree) ELSE 0)

C4_Witness ==
    /\ last.op = "parseAndAnalyze"
    /\ last.result = "false"
    /\ last.arg[1].errors = <<>>
    /\ m_parserResult # NullObject
    /\ Len(m_errors) = 1
    /\ ~m_analysisSuccessful

\* C5: translate(target) is a no-op when the language is the target; the only
\* translation carried out is strict assembly to the secondary-VM form, which
\* replaces the tree, sets the language to the target and leaves the flag as
\* it was, without analysis; every other pair is fatal and leaves the language.
C5_Translate ==
    [][last'.op = "translate" =>
          LET target == last'.arg[1]
          IN /\ m_language = target =>
                   (last'.result = "ok" /\ UNCHANGED members)
             /\ (m_language # target /\ last'.result = "ok") =>
                   /\ m_language = "StrictAssembly"
                   /\ target = "Ewasm"
                   /\ m_language' = target
                   /\ m_parserResult' # m_parserResult
                   /\ m_analysisSuccessful' = m_analysisSuccessful
                   /\ m_errors' = m_errors
                   /\ \A i \in 1..Len(calls') : calls'[i].callee # "AsmAnalyzer"
             /\ (m_language # target /\ ~(m_language = "StrictAssembly" /\ target = "Ewasm")) =>
                   (last'.result = "fatal" /\ UNCHANGED members)
             /\ last'.result = "fatal" => m_language' = m_language
      ]_vars

C5_Witness ==
    /\ last.op = "translate"
    /\ last.arg = <<"Ewasm">>
    /\ last.result = "ok"
    /\ m_language = "Ewasm"
    /\ Len(calls) = 1
    /\ m_parserResult # NullObject
    /\ m_parserResult.code = "wasm"

\* The nested code regions of the program: the sub-nodes of the root that are Objects.
Regions(tree) == SelectSeq(tree.subObjects, IsObject)

\* The artifact of compiling one region alone.
RegionArtifact(region) ==
    MachineObject(compileObject(region, languageToDialect(m_language)), m_scanner)

\* C6: the deployed artifact of assembleWithDeployed: (a) with a deploy name,
\* the one nested region of that name, however many siblings it has, and a
\* fatal error when no region has the name; (b) with no name and exactly one
\* nested region, that region; (c) with no name and no or several regions, the
\* empty artifact. The creation artifact is that of the top-level program.
C6_DeployedSelection ==
    (last.op = "assembleWithDeployed" /\ m_parserResult # NullObject) =>
        LET regions == Regions(m_parserResult)
            named == {i \in 1..Len(regions) : last.arg # <<>> /\ regions[i].name = last.arg[1]}
        IN /\ (last.arg # <<>> /\ named = {}) => last.result = "fatal"
           /\ last.result = "ok" =>
                 /\ last.value.first = RegionArtifact(m_parserResult)
                 /\ last.arg # <<>> =>
                       /\ Cardinality(named) = 1
                       /\ \A i \in named : last.value.second = RegionArtifact(regions[i])
                 /\ (last.arg = <<>> /\ Len(regions) = 1) =>
                       /\ last.value.second = RegionArtifact(regions[1])
                       /\ last.value.second # EmptyMachineObject
                 /\ (last.arg = <<>> /\ Len(regions) # 1) =>
                       last.value.second = EmptyMachineObject

C6_Witness ==
    /\ last.op = "assembleWithDeployed"
    /\ last.result = "ok"
    /\ last.arg = <<"B">>
    /\ Len(Regions(m_parserResult)) >= 2
    /\ last.value.second.assembly[1].name = "B"

\* C7: every creation artifact returned by assembleWithDeployed, and by
\* assemble for the stack VM, has no unresolved deploy-time placeholder; when
\* one remains after linking the top level the call is fatal, whatever the
\* deploy name and the nested regions.
C7_NoLeftoverImmutables ==
    (last.op = "assembleWithDeployed" \/ (last.op = "assemble" /\ last.arg = <<"EVM">>)) =>
        /\ last.result = "ok" =>
              LET creation == IF last.op = "assemble" THEN last.value.object ELSE last.value.first
              IN creation.bytecode[1].immutableReferences = {}
        /\ (m_parserResult # NullObject /\ m_parserResult.imm) =>
              (last.result = "fatal" /\ last.value = NoValue)

C7_Witness ==
    /\ last.op = "assembleWithDeployed"
    /\ last.arg = <<"A">>
    /\ last.result = "fatal"
    /\ m_analysisSuccessful
    /\ m_language \in StackVMLanguages
    /\ m_parserResult.imm
    /\ Len(Regions(m_parserResult)) = 1

\* C8 as stated: print() is fatal in every state where the tree is absent or
\* the analyzed flag is false.
C8_PrintNeedsAnalysis ==
    (last.op = "print" /\ (m_parserResult = NullObject \/ ~m_analysisSuccessful)) =>
        last.result = "fatal"

\* C8, amended: print() requires a present tree with a code block and nothing
\* more: it is fatal exactly when the tree or its code is absent, and
\* otherwise, analyzed or not, it returns the serialization of the current tree
\* and changes no job state, so a print() right after a print() returns the same.
C8_PrintNeedsTree ==
    [][last'.op = "print" =>
          /\ UNCHANGED members
          /\ last'.result = "fatal" <=>
                (m_parserResult = NullObject \/ m_parserResult.code = "none")
          /\ last'.result = "ok" =>
                last'.value.text = ObjectToString(m_parserResult, languageToDialect(m_language))
          /\ last.op = "print" => last' = last
      ]_vars

C8_Witness ==
    /\ last.op = "print"
    /\ last.result = "ok"
    /\ m_parserResult # NullObject
    /\ ~m_analysisSuccessful
    /\ m_errors # <<>>


\* The calls of one callee among the calls of the last operation.
CallsOf(callee) == SelectSeq(calls, LAMBDA c : c.callee = callee)

\* The listed calls visit every Object node of the tree, each once.
EveryNodeOnce(made, tree) ==
    /\ {made[i].at : i \in 1..Len(made)} = ObjectPaths(tree, <<>>)
    /\ Len(made) = Cardinality(ObjectPaths(tree, <<>>))

RECURSIVE AllAnalyzed(_)
\* Every Object node of the tree has a block and analysis metadata.
AllAnalyzed(node) ==
    IsObject(node) =>
        /\ node.code # "none"
        /\ node.analysisInfo
        /\ \A i \in 1..Len(node.subObjects) : AllAnalyzed(node.subObjects[i])

\* C15: the analysis of parseAndAnalyze and the re-analysis of optimize, when
\* no assertion ends them, call the analyzer on every Object node exactly once
\* and leave metadata on each, also on the nodes after one that failed; the
\* result is true exactly when no node failed; after a parser diagnostic no
\* node is analyzed.
C15_AnalysisVisitsEveryNode ==
    /\ last.op = "parseAndAnalyze" =>
          /\ last.arg[1].errors # <<>> => (calls = <<>> /\ last.result = "false")
          /\ (last.arg[1].errors = <<>> /\ last.result \in {"true", "false"}) =>
                /\ EveryNodeOnce(calls, m_parserResult)
                /\ AllAnalyzed(m_parserResult)
                /\ last.result = "true" <=> FailingNodes(m_parserResult) = 0
    /\ (last.op = "optimize" /\ CallsOf("AsmAnalyzer") # <<>>) =>
          /\ EveryNodeOnce(CallsOf("AsmAnalyzer"), m_parserResult)
          /\ AllAnalyzed(m_parserResult)
          /\ last.result = "ok" <=> FailingNodes(m_parserResult) = 0

\* parseAndAnalyze has analyzed the second nested object after the first
\* one failed.
C15_Witness ==
    /\ last.op = "parseAndAnalyze"
    /\ last.result = "false"
    /\ m_parserResult # NullObject
    /\ Len(m_parserResult.subObjects) = 2
    /\ m_parserResult.subObjects[1].code = "err"
    /\ IsObject(m_parserResult.subObjects[2])
    /\ m_parserResult.subObjects[2].analysisInfo
    /\ Len(calls) = 3

IsProperPrefix(a, b) == Len(a) < Len(b) /\ SubSeq(b, 1, Len(a)) = a

\* C16: an enabled optimize() runs the optimizer suite at most once on a node,
\* on a node only after all its descendants, as creation code on the root
\* alone, and, when the suite does not throw, on every Object node with the
\* root last.
C16_OptimizeBottomUp ==
    (last.op = "optimize" /\ runYulOptimiser /\ CallsOf("OptimiserSuite") # <<>>) =>
        LET suite == CallsOf("OptimiserSuite")
        IN /\ \A i, j \in 1..Len(suite) : suite[i].at = suite[j].at => i = j
           /\ \A i \in 1..Len(suite) :
                 /\ suite[i].isCreation <=> suite[i].at = <<>>
                 /\ \A node \in ObjectPaths(m_parserResult, <<>>) :
                       IsProperPrefix(suite[i].at, node) =>
                           \E j \in 1..(i - 1) : suite[j].at = node
           /\ last.arg[1].how # "throw" =>
                 /\ EveryNodeOnce(suite, m_parserResult)
                 /\ suite[Len(suite)].at = <<>>

\* optimize() has returned on a tree with an object nested in a nested object.
C16_Witness ==
    /\ last.op = "optimize"
    /\ runYulOptimiser
    /\ last.result = "ok"
    /\ \E i \in 1..Len(calls) : calls[i].callee = "OptimiserSuite" /\ Len(calls[i].at) = 2
    /\ calls[1].callee = "OptimiserSuite" /\ Len(calls[1].at) = 2

\* C17 as stated: a cost model only for the stack-VM languages, and the hint
\* in the cost model or in the suite's argument only for those languages and
\* only for nodes that are not creation code.
C17_HintOnlyStackVMNonCreation ==
    last.op = "optimize" =>
        \A i \in 1..Len(calls) :
            calls[i].callee = "OptimiserSuite" =>
                /\ calls[i].meter # <<>> => m_language \in StackVMLanguages
                /\ (calls[i].meter # <<>> \/ calls[i].expectedExecutions # <<>>) =>
                      (m_language \in StackVMLanguages /\ ~calls[i].isCreation)

\* C17: a cost model is built exactly for the stack-VM languages and is given
\* the creation flag and the hint for every node; the suite is given the hint
\* exactly for the nodes that are not creation code, whatever the language.
C17_HintRouting ==
    last.op = "optimize" =>
        \A i \in 1..Len(calls) :
            calls[i].callee = "OptimiserSuite" =>
                /\ calls[i].meter # <<>> <=> m_language \in StackVMLanguages
                /\ calls[i].meter # <<>> =>
                      calls[i].meter = <<[isCreation |-> calls[i].isCreation,
                                          runs |-> ExpectedExecutionsPerDeployment]>>
                /\ calls[i].expectedExecutions =
                      IF calls[i].isCreation THEN <<>> ELSE <<ExpectedExecutionsPerDeployment>>

\* optimize() under the secondary-VM language has handed the hint to the
\* suite for a nested node, without a cost model.
C17_Witness ==
    /\ last.op = "optimize"
    /\ m_language = "Ewasm"
    /\ \E i \in 1..Len(calls) :
          /\ calls[i].callee = "OptimiserSuite"
          /\ calls[i].meter = <<>>
          /\ calls[i].expectedExecutions # <<>>

\* C18: a translate that would change the language is fatal while the
\* analyzed flag is false and leaves the language, the tree and the other
\* members as they are; in that state only the translate to the current
\* language returns.
C18_TranslateNeedsAnalysis ==
    [][(last'.op = "translate" /\ ~m_analysisSuccessful) =>
          /\ last'.arg[1] # m_language =>
                /\ last'.result = "fatal"
                /\ UNCHANGED members
          /\ last'.result = "ok" =>
                /\ last'.arg[1] = m_language
                /\ UNCHANGED members]_vars

\* translate to the secondary-VM form has failed on a strict-assembly job
\* whose tree failed analysis.
C18_Witness ==
    /\ last.op = "translate"
    /\ last.arg = <<"Ewasm">>
    /\ last.result = "fatal"
    /\ m_language = "StrictAssembly"
    /\ m_parserResult # NullObject
    /\ ~m_analysisSuccessful

\* C20: whenever the analyzed flag is true the root tree is there and every
\* Object node of it has a block and analysis metadata.
C20_AnalyzedTreeIsComplete ==
    m_analysisSuccessful =>
        /\ IsObject(m_parserResult)
        /\ AllAnalyzed(m_parserResult)

\* The flag is true after a translation of a tree with an object nested in a
\* nested object.
C20_Witness ==
    /\ m_analysisSuccessful
    /\ last.op = "translate"
    /\ last.result = "ok"
    /\ m_language = "Ewasm"
    /\ IsObject(m_parserResult)
    /\ \E i \in 1..Len(m_parserResult.subObjects) :
          /\ IsObject(m_parserResult.subObjects[i])
          /\ \E k \in 1..Len(m_parserResult.subObjects[i].subObjects) :
                IsObject(m_parserResult.subObjects[i].subObjects[k])

----------------------------------------------------------------------------
(* Properties of the collector *)

\* A createFunction call for a name that has an entry: it returns the name,
\* invokes no generator and leaves the map as it is.
ReturnsAtOnce ==
    /\ rlast'.result = "returned"
    /\ rlast'.value = rlast'.name
    /\ invoked' = invoked
    /\ m_requestedFunctions' = m_requestedFunctions
    /\ generating' = generating

\* C9 as stated: between two drains the generator of a name is invoked at most
\* once, and every request (form A or B, nested or not) for a name that has an
\* entry, finished or placeholder, returns the name at once.
C9_RequestOfKnownNameReturns ==
    [][/\ \A n \in Names : invoked'[n] <= 1
       /\ (rlast'.op = "createFunction" /\ rlast'.name \in DOMAIN m_requestedFunctions) =>
             ReturnsAtOnce
      ]_vars

\* C9, amended: the generator of a name is invoked at most once between two
\* drains; a request for a name that has an entry returns the name at once,
\* without invoking the generator or changing the map, except a form B request
\* with the empty name, which is fatal whether or not the name has an entry
\* (and invokes no generator and leaves the map unchanged as well).
C9_AtMostOnce ==
    [][/\ \A n \in Names : invoked'[n] <= 1
       /\ (/\ rlast'.op = "createFunction"
           /\ rlast'.name \in DOMAIN m_requestedFunctions
           /\ ~(rlast'.form = "B" /\ rlast'.name = <<>>)) =>
             ReturnsAtOnce
       /\ (rlast'.op = "createFunction" /\ rlast'.form = "B" /\ rlast'.name = <<>>) =>
             /\ rlast'.result = "fatal"
             /\ invoked' = invoked
             /\ m_requestedFunctions' = m_requestedFunctions
       /\ (rlast'.op = "createFunction" /\ rlast'.result = "generating") =>
             /\ rlast'.name \notin DOMAIN m_requestedFunctions
             /\ invoked'[rlast'.name] = 1
      ]_vars

\* A reentrant request: the name asked for is the one being generated.
C9_Witness ==
    /\ rlast.op = "createFunction"
    /\ rlast.result = "returned"
    /\ generating # <<>>
    /\ generating[Len(generating)].name = rlast.name
    /\ m_requestedFunctions[rlast.name] = Stub
    /\ invoked[rlast.name] = 1

\* Name a comes before name b: a is a proper prefix of b, or at the first
\* place where they differ a has the smaller character.
NameBefore(a, b) ==
    \E i \in 1..(Len(b)) :
        /\ \A j \in 1..(i - 1) : j <= Len(a) /\ a[j] = b[j]
        /\ \/ i = Len(a) + 1
           \/ (i <= Len(a) /\ CharCode(a[i]) < CharCode(b[i]))

\* The sequences that hold each of the names once, in ascending order.
AscendingListings(names) ==
    {order \in [1..Cardinality(names) -> names] :
        \A i, j \in 1..Cardinality(names) : i < j => NameBefore(order[i], order[j])}

RECURSIVE Concatenated(_, _, _, _)
\* The definitions of the listed names from position i on, each as drain emits it, joined.
Concatenated(functions, order, i, comment) ==
    IF i > Len(order) THEN <<>>
    ELSE (IF NeedsSourceLocation(functions[order[i]], comment)
          THEN WithSourceLocation(functions[order[i]], comment)
          ELSE functions[order[i]])
         \o Concatenated(functions, order, i + 1, comment)

\* C10: drain returns the stored definitions joined in ascending order of
\* function name, each exactly once; the text depends on the entries alone,
\* not on the order in which they were requested.
C10_DrainIsSortedByName ==
    [][(rlast'.op = "requestedFunctions" /\ rlast'.result = "returned") =>
          /\ Cardinality(AscendingListings(DOMAIN m_requestedFunctions)) = 1
          /\ \A order \in AscendingListings(DOMAIN m_requestedFunctions) :
                rlast'.value = Concatenated(m_requestedFunctions, order, 1, rlast'.name)
      ]_vars

\* A drain of entries that were requested in another order than by name.
C10_Witness ==
    /\ rlast.op = "requestedFunctions"
    /\ rlast.result = "returned"
    /\ rlast.name = <<>>
    /\ outOfOrder
    /\ m_requestedFunctions = <<>>
    /\ Len(rlast.value) > Len(Indented(<<"z">>))


\* The last step was a drain that returned normally.
Drained == rlast.op = "requestedFunctions" /\ rlast.result = "returned"

Placeholders(functions) == {n \in DOMAIN functions : functions[n] = Stub}

\* C12: a drain is fatal and leaves the registry as it is whenever an entry is
\* in placeholder state, so whenever a generator is running; a drain that
\* returns has met no placeholder and returns no placeholder value.
C12_DrainRejectsPlaceholders ==
    [][rlast'.op = "requestedFunctions" =>
          /\ (Placeholders(m_requestedFunctions) # {} \/ generating # <<>>) =>
                /\ rlast'.result = "fatal"
                /\ m_requestedFunctions' = m_requestedFunctions
          /\ rlast'.result = "returned" =>
                /\ Placeholders(m_requestedFunctions) = {}
                /\ Find(rlast'.value, Stub) = 0]_vars

\* A drain called from inside a running generator has failed, with a finished
\* entry beside the placeholder.
C12_Witness ==
    /\ rlast.op = "requestedFunctions"
    /\ rlast.result = "fatal"
    /\ generating # <<>>
    /\ Placeholders(m_requestedFunctions) # {}
    /\ Placeholders(m_requestedFunctions) # DOMAIN m_requestedFunctions

\* The text declares a function of that name.
Declares(text, _name) == Find(text, ToFunction \o <<" ">> \o _name \o <<"(">>) # 0

\* C13: every entry that is no placeholder holds a non-empty text declaring a
\* function named as its key, whichever form made it; a form A generator that
\* returned the empty text or a text that does not declare the name has ended
\* in a fatal error with the entry still the placeholder.
C13_EntriesDeclareTheirName ==
    /\ \A n \in DOMAIN m_requestedFunctions :
          m_requestedFunctions[n] # Stub =>
             /\ m_requestedFunctions[n] # <<>>
             /\ Declares(m_requestedFunctions[n], n)
    /\ (/\ rlast.op = "creatorReturns"
        /\ rlast.form = "A"
        /\ (rlast.out = <<>> \/ ~Declares(rlast.out, rlast.name))) =>
          /\ rlast.result = "fatal"
          /\ m_requestedFunctions[rlast.name] = Stub

\* A form A generator has returned a text declaring another function, beside
\* a finished entry made by form B.
C13_Witness ==
    /\ rlast.op = "creatorReturns"
    /\ rlast.form = "A"
    /\ rlast.result = "fatal"
    /\ rlast.out # <<>>
    /\ \E n \in DOMAIN m_requestedFunctions :
          /\ m_requestedFunctions[n] # Stub
          /\ Find(m_requestedFunctions[n], <<NL, TAB, TAB, TAB>> \o ToFunction) = 1


\* The definition with the comment on a line of its own right before the line
\* of the header of the function called _name, the tabs and blanks that lead
\* to the header on both lines.
AnnotatedAtHeader(code, _name, comment) ==
    LET header == Find(code, ToFunction \o <<" ">> \o _name \o <<"(">>)
        lineStart == FindLastOf(code, header - 1, NL)
        leading == SubSeq(code, lineStart + 1, header - 1)
    IN SubSeq(code, 1, lineStart)
       \o leading \o comment \o <<NL>>
       \o leading \o SubSeq(code, header, Len(code))

RECURSIVE AnnotatedListing(_, _, _, _)
\* The definitions of the listed names from position i on, joined, each with
\* the comment at the header of its own function unless it is annotated.
AnnotatedListing(functions, order, i, comment) ==
    IF i > Len(order) THEN <<>>
    ELSE (IF Find(functions[order[i]], SrcTag) = 0 /\ comment # <<>>
          THEN AnnotatedAtHeader(functions[order[i]], order[i], comment)
          ELSE functions[order[i]])
         \o AnnotatedListing(functions, order, i + 1, comment)

\* C14: a drain given a comment emits every definition that has no
\* source-location annotation with the comment right before the header line
\* of the function the entry is keyed by, that line's leading tabs on the
\* comment line and on the header line, and every annotated definition as it
\* is stored.
C14_CommentBeforeKeyedHeader ==
    [][(rlast'.op = "requestedFunctions" /\ rlast'.result = "returned") =>
          rlast'.value = AnnotatedListing(m_requestedFunctions,
                                          MapOrder(DOMAIN m_requestedFunctions), 1, rlast'.name)]_vars


\* The names whose request was aborted: the entry is the placeholder and no
\* running generator is making it.
Aborted(functions, frames) ==
    {n \in DOMAIN functions :
        functions[n] = Stub /\ \A i \in 1..Len(frames) : frames[i].name # n}

\* The requests an exception has left in this step, the one whose generator
\* failed among them, have their entries still in placeholder state.
AbortLeavesPlaceholder ==
    /\ (rlast'.op \in {"creatorReturns", "creatorThrows"} /\ rlast'.result = "fatal") =>
          rlast'.name \in Aborted(m_requestedFunctions', generating')
    /\ rlast'.result = "fatal" =>
          \A i \in (Len(generating') + 1)..Len(generating) :
              generating[i].name \in Aborted(m_requestedFunctions', generating')

\* Every drain fails and leaves the registry once a request was aborted, and
\* the aborted entry stays.
AbortedBlocksDrain ==
    \A n \in Aborted(m_requestedFunctions, generating) :
        /\ n \in Aborted(m_requestedFunctions', generating')
        /\ rlast'.op = "requestedFunctions" =>
              /\ rlast'.result = "fatal"
              /\ m_requestedFunctions' = m_requestedFunctions

\* C19 as stated: after an aborted request the entry stays the placeholder,
\* every drain is fatal and leaves the registry, and every repeated request
\* for the name returns it without a generator call.
C19_AbortedRequestReturns ==
    [][/\ AbortLeavesPlaceholder
       /\ AbortedBlocksDrain
       /\ (/\ rlast'.op = "createFunction"
           /\ rlast'.name \in Aborted(m_requestedFunctions, generating)) =>
             ReturnsAtOnce]_vars

\* C19: after an aborted request the entry stays the placeholder, every drain
\* is fatal and leaves the registry, and a repeated request for the name
\* returns it without a generator call, but for a form B request with the
\* empty name, which is fatal and changes nothing.
C19_AbortedEntryStays ==
    [][/\ AbortLeavesPlaceholder
       /\ AbortedBlocksDrain
       /\ (/\ rlast'.op = "createFunction"
           /\ rlast'.name \in Aborted(m_requestedFunctions, generating)) =>
             IF rlast'.form = "B" /\ rlast'.name = <<>>
             THEN /\ rlast'.result = "fatal"
                  /\ UNCHANGED <<m_requestedFunctions, invoked>>
             ELSE ReturnsAtOnce]_vars

\* A request for a name whose earlier request was aborted has returned.
C19_Witness ==
    /\ rlast.op = "createFunction"
    /\ rlast.result = "returned"
    /\ rlast.name \in Aborted(m_requestedFunctions, generating)
    /\ invoked[rlast.name] = 1

====
